---------------------------- MODULE Spec2Model ----------------------------
(***************************************************************************)
(* A model of adzr/logging (logger.go): the stdout/stderr routing logger   *)
(* built by CreateStdSyncLogger, its Log method, the level resolution and  *)
(* the once-only initialisation of the two shared synchronized writers.    *)
(*                                                                         *)
(* The go-kit collaborators the code calls (level.NewFilter, log.With,     *)
(* log.NewJSONLogger, log.NewNopLogger, sync.Once) are modelled at the     *)
(* place the code calls them, by what they do to a key/value sequence.     *)
(***************************************************************************)
EXTENDS Integers, Sequences, FiniteSets, TLC

VARIABLES
    stdoutSyncWriter,   \* the package variable: a sink id, or NoWriter (nil)
    stderrSyncWriter,   \* the package variable: a sink id, or NoWriter (nil)
    onceDone,           \* initializeWritersOnce: its done flag
    onceM,              \* initializeWritersOnce: the holder of its mutex, or NoProc
    newSyncWriterCalls, \* how many sinks log.NewSyncWriter made, per stream
    logger,             \* sequential run: the logger CreateStdSyncLogger returned
    config,             \* sequential run: the Config.Level it was given
    stdout,             \* the records handed to the stdout sink, in order
    stderr,             \* the records handed to the stderr sink, in order
    counts,             \* the counter: label -> value
    last,               \* the last Log call: its keyvals, the sink's answer, its outcome
    calls,              \* how many Log calls were made
    used,               \* how many keyvals elements were logged in all
    pc,                 \* concurrent run: where each caller of CreateStdSyncLogger is
    cfg,                \* concurrent run: the Config.Level each caller passed
    built               \* concurrent run: the logger each caller got

vars == <<stdoutSyncWriter, stderrSyncWriter, onceDone, onceM, newSyncWriterCalls,
          logger, config, stdout, stderr, counts, last, calls, used, pc, cfg, built>>

registryVars == <<stdoutSyncWriter, stderrSyncWriter, onceDone, onceM, newSyncWriterCalls>>
seqVars == <<logger, config, stdout, stderr, counts, last, calls, used>>
concVars == <<pc, cfg, built>>

(***************************************************************************)
(* Bounds of the model.                                                    *)
(***************************************************************************)
\* the key/value elements logged in one behaviour, over all Log calls
MaxElems == 4
\* the Log calls of one behaviour
MaxCalls == 2
\* the concurrent callers of CreateStdSyncLogger
NumProcs == 2

(***************************************************************************)
(* Values.  Every element of a keyvals sequence is a record [t, v]: t is   *)
(* its dynamic Go type, v its content.                                     *)
(***************************************************************************)
Str(s) == [t |-> "string", v |-> s]
\* *level.levelValue: the only type that implements level.Value
Lvl(n) == [t |-> "levelValue", v |-> n]
\* the test's customLevelValue: a Stringer, its levelVal() is another package's
Custom(n) == [t |-> "customLevelValue", v |-> n]

LevelNames == {"error", "warn", "info", "debug"}
ErrorValue == Lvl("error")
WarnValue == Lvl("warn")
InfoValue == Lvl("info")
DebugValue == Lvl("debug")
LevelValues == {Lvl(n) : n \in LevelNames}

\* level.Key()
LevelKey == Str("level")
\* log.ErrMissingValue, log.DefaultTimestampUTC and log.Caller(5) once bound
ErrMissingValue == [t |-> "error", v |-> "(MISSING)"]
TimestampUTC == [t |-> "time", v |-> "now"]
CallerValue == [t |-> "caller", v |-> "file:line"]

NoWriter == 0
NoProc == 0
NilError == "nil"
Panic == "panic"
NoLabel == "-"
NoLogger == [kind |-> "unset"]

\* what a caller may pass to Log
Elems == {LevelKey, Str("key"), Custom("invalid")} \cup LevelValues
\* what the sink's Write may answer
WriteErrors == {"EPIPE"}
LoggerNames == {"fake"}

(***************************************************************************)
(* Config.Level strings, as sequences of characters.                       *)
(***************************************************************************)
LevelInputs ==
    { <<"n","o","n","e">>, <<" ","N","o","N","E","\t">>,
      <<"e","r","r","o","r">>,
      <<"w","a","r","n">>, <<"\n","W","a","r","n"," ">>,
      <<"i","n","f","o">>, <<"I","N","F","O">>,
      <<"d","e","b","u","g">>,
      <<"a","l","l">>, <<>>, <<"n","o"," ","n","e">> }

\* unicode.IsSpace, on the characters used
IsSpace(c) == c \in {" ", "\t", "\n", "\r"}

\* unicode.ToLower, on the characters used
ToLowerChar(c) ==
    CASE c = "A" -> "a" [] c = "B" -> "b" [] c = "D" -> "d" [] c = "E" -> "e"
      [] c = "F" -> "f" [] c = "G" -> "g" [] c = "I" -> "i" [] c = "L" -> "l"
      [] c = "N" -> "n" [] c = "O" -> "o" [] c = "R" -> "r" [] c = "U" -> "u"
      [] c = "W" -> "w" [] OTHER -> c

\* strings.ToLower
ToLower(s) == [i \in 1..Len(s) |-> ToLowerChar(s[i])]

RECURSIVE TrimLeft(_)
TrimLeft(s) == IF s # <<>> /\ IsSpace(Head(s)) THEN TrimLeft(Tail(s)) ELSE s

RECURSIVE TrimRight(_)
TrimRight(s) ==
    IF s # <<>> /\ IsSpace(s[Len(s)]) THEN TrimRight(SubSeq(s, 1, Len(s) - 1)) ELSE s

\* strings.TrimSpace
TrimSpace(s) == TrimRight(TrimLeft(s))

isLevelNone_NoTrim(l) == <<"n","o","n","e">> = ToLower(l)

\* isLevelNone
isLevelNone(l) == <<"n","o","n","e">> = ToLower(TrimSpace(l))

\* level.AllowError(), AllowWarn(), AllowInfo(), AllowDebug(), AllowAll():
\* the set of levels the filter lets through
AllowError == {"error"}
AllowWarn == {"error", "warn"}
AllowInfo == {"error", "warn", "info"}
AllowDebug == {"error", "warn", "info", "debug"}
AllowAll == AllowDebug

getValidLevel_DefaultInfo(l) ==
    LET s == ToLower(TrimSpace(l)) IN
    CASE s = <<"e","r","r","o","r">> -> AllowError
      [] s = <<"w","a","r","n">> -> AllowWarn
      [] s = <<"i","n","f","o">> -> AllowInfo
      [] s = <<"d","e","b","u","g">> -> AllowDebug
      [] OTHER -> AllowInfo

\* getValidLevel
getValidLevel(l) ==
    LET s == ToLower(TrimSpace(l)) IN
    CASE s = <<"e","r","r","o","r">> -> AllowError
      [] s = <<"w","a","r","n">> -> AllowWarn
      [] s = <<"i","n","f","o">> -> AllowInfo
      [] s = <<"d","e","b","u","g">> -> AllowDebug
      [] OTHER -> AllowAll


(***************************************************************************)
(* The loggers.                                                            *)
(***************************************************************************)
\* log.NewNopLogger()
NopLogger ==
    [kind |-> "nop", name |-> "", counter |-> FALSE, allowed |-> {},
     loggers |-> [v \in {} |-> ""], outW |-> NoWriter, errW |-> NoWriter]

\* the body of CreateStdSyncLogger once the level is not "none": the filter on
\* the stdout appender, the map of appenders and the instrumented logger
newMultiLogger(loggerName, counter, lvl, outW, errW) ==
    [kind |-> "multi", name |-> loggerName, counter |-> counter,
     allowed |-> lvl,
     loggers |-> [v \in LevelValues |-> IF v = ErrorValue THEN "errLogger" ELSE "outLogger"],
     outW |-> outW, errW |-> errW]

\* the keyvals log.With binds to each appender
OutPrefix == <<Str("ts"), TimestampUTC>>
ErrPrefix == <<Str("ts"), TimestampUTC, Str("caller"), CallerValue>>

isLevelValue_AnyStringer(x) == x.t \in {"levelValue", "customLevelValue"}

\* the type assertion keyvals[i+1].(level.Value)
isLevelValue(x) == x.t = "levelValue"

counterLabel_OnlyAllowed(l, v) ==
    IF l.counter /\ v.v \in l.allowed THEN v.v ELSE NoLabel

\* if l.counter != nil { l.counter.With("level", v.String()).Add(1) }
counterLabel(l, v) == IF l.counter THEN v.v ELSE NoLabel

\* l.loggers[v]: the appender of a severity, or nil
lookupTarget(l, v) == IF v \in DOMAIN l.loggers THEN l.loggers[v] ELSE "nil"

\* what one pass of Log's loop decides: whether it panicked, the label it
\* counted, the appender it chose and the keyvals it forwards
Decision(p, label, target, kvs) ==
    [panic |-> p, label |-> label, target |-> target, keyvals |-> kvs]

RECURSIVE LogLoop(_, _, _)
\* the for loop of multiAppenderInstrumentedLogger.Log; i is 1-based
LogLoop(l, keyvals, i) ==
    IF i > Len(keyvals) THEN Decision(FALSE, NoLabel, "nil", <<>>)
    ELSE IF keyvals[i] = LevelKey
    THEN IF i + 1 > Len(keyvals)
         THEN Decision(TRUE, NoLabel, "nil", <<>>)   \* keyvals[i+1]: index out of range
         ELSE IF isLevelValue(keyvals[i + 1])
              THEN LET v == keyvals[i + 1]
                       target == lookupTarget(l, v)
                   IN  IF target # "nil"
                       THEN Decision(FALSE, counterLabel(l, v), target,
                                     keyvals \o <<Str("logger"), Str(l.name)>>)
                       ELSE Decision(FALSE, counterLabel(l, v), "nil", <<>>)
              ELSE Decision(FALSE, NoLabel, "nil", <<>>)   \* break
    ELSE LogLoop(l, keyvals, i + 2)

RECURSIVE firstLevelValue(_, _)
\* the loop of the level filter: the first *levelValue at a value position
firstLevelValue(keyvals, i) ==
    IF i > Len(keyvals) THEN Str("")
    ELSE IF keyvals[i].t = "levelValue" THEN keyvals[i]
    ELSE firstLevelValue(keyvals, i + 2)

\* level.NewFilter(outLogger, lvl).Log: whether the entry goes on to outLogger
filterPasses(allowed, keyvals) ==
    LET v == firstLevelValue(keyvals, 2) IN
    IF v.t = "levelValue" THEN v.v \in allowed ELSE TRUE

ContextLog_Suffix(prefix, keyvals) ==
    LET kvs == keyvals \o prefix IN
    IF Len(kvs) % 2 # 0 THEN Append(kvs, ErrMissingValue) ELSE kvs

\* log.With(logger, prefix...).Log: the keyvals the JSON logger is handed
ContextLog(prefix, keyvals) ==
    LET kvs == prefix \o keyvals IN
    IF Len(kvs) % 2 # 0 THEN Append(kvs, ErrMissingValue) ELSE kvs

\* the JSON logger's key of a pair: a string, or a Stringer's String()
KeyString(e) == e.v

RECURSIVE JSONFieldFrom(_, _, _)
JSONFieldFrom(rec, k, i) ==
    IF i < 1 THEN Str("")
    ELSE IF KeyString(rec[i]) = k THEN rec[i + 1]
    ELSE JSONFieldFrom(rec, k, i - 2)

\* the JSON logger's record: the value of field k (the last pair with that
\* key wins), or the empty string
JSONField(rec, k) == JSONFieldFrom(rec, k, Len(rec) - 1)

JSONHasField(rec, k) == \E i \in 1..Len(rec) : i % 2 = 1 /\ KeyString(rec[i]) = k

\* a Log call's whole effect: the stream written and the record handed to it
Effect(panic, label, stream, record) ==
    [panic |-> panic, label |-> label, stream |-> stream, record |-> record]

\* multiAppenderInstrumentedLogger.Log, down to the sink
multiLog(l, keyvals) ==
    LET d == LogLoop(l, keyvals, 1) IN
    CASE d.target = "errLogger" ->
           Effect(d.panic, d.label, "stderr", ContextLog(ErrPrefix, d.keyvals))
      [] d.target = "outLogger" ->
           IF filterPasses(l.allowed, d.keyvals)
           THEN Effect(d.panic, d.label, "stdout", ContextLog(OutPrefix, d.keyvals))
           ELSE Effect(d.panic, d.label, "none", <<>>)
      [] OTHER -> Effect(d.panic, d.label, "none", <<>>)

\* Log of the logger CreateStdSyncLogger returned
loggerLog(l, keyvals) ==
    IF l.kind = "nop" THEN Effect(FALSE, NoLabel, "none", <<>>) ELSE multiLog(l, keyvals)

Labels == {e.v : e \in Elems}

(***************************************************************************)
(* The sequential run: one CreateStdSyncLogger, then Log calls.            *)
(***************************************************************************)
NoCall == [keyvals |-> <<>>, werr |-> NilError, result |-> "none"]

\* createSyncStdLoggers' initializeWritersOnce.Do, run by a single caller
InitWritersSeq ==
    /\ stdoutSyncWriter' = IF onceDone \/ stdoutSyncWriter # NoWriter
                           THEN stdoutSyncWriter ELSE newSyncWriterCalls.out + 1
    /\ stderrSyncWriter' = IF onceDone \/ stderrSyncWriter # NoWriter
                           THEN stderrSyncWriter ELSE newSyncWriterCalls.err + 1
    /\ newSyncWriterCalls' =
          [out |-> IF stdoutSyncWriter' # stdoutSyncWriter
                   THEN newSyncWriterCalls.out + 1 ELSE newSyncWriterCalls.out,
           err |-> IF stderrSyncWriter' # stderrSyncWriter
                   THEN newSyncWriterCalls.err + 1 ELSE newSyncWriterCalls.err]
    /\ onceDone' = TRUE
    /\ UNCHANGED onceM

\* CreateStdSyncLogger with a level that is "none"
CreateNone ==
    /\ logger = NoLogger
    /\ \E lv \in LevelInputs :
         /\ isLevelNone(lv)
         /\ config' = lv
         /\ logger' = NopLogger
    /\ UNCHANGED <<registryVars, stdout, stderr, counts, last, calls, used, concVars>>

\* CreateStdSyncLogger with any other level
CreateMulti ==
    /\ logger = NoLogger
    /\ \E lv \in LevelInputs, name \in LoggerNames, counter \in BOOLEAN :
         /\ ~isLevelNone(lv)
         /\ config' = lv
         /\ InitWritersSeq
         /\ logger' = newMultiLogger(name, counter, getValidLevel(lv),
                                     stdoutSyncWriter', stderrSyncWriter')
    /\ UNCHANGED <<stdout, stderr, counts, last, calls, used, concVars>>

\* logger.Log(keyvals...), the sink's Write answering werr
Log ==
    /\ logger # NoLogger
    /\ calls < MaxCalls
    /\ \E n \in 0..(MaxElems - used) :
         \E keyvals \in [1..n -> Elems], werr \in {NilError} \cup WriteErrors :
            LET e == loggerLog(logger, keyvals) IN
            /\ (werr # NilError => e.stream # "none")
            /\ stdout' = IF e.stream = "stdout" THEN Append(stdout, e.record) ELSE stdout
            /\ stderr' = IF e.stream = "stderr" THEN Append(stderr, e.record) ELSE stderr
            /\ counts' = IF e.label # NoLabel
                         THEN [counts EXCEPT ![e.label] = @ + 1] ELSE counts
            /\ last' = [keyvals |-> keyvals, werr |-> werr,
                        result |-> IF e.panic THEN Panic
                                   ELSE IF e.stream # "none" THEN werr ELSE NilError]
            /\ calls' = calls + 1
            /\ used' = used + n
    /\ UNCHANGED <<registryVars, logger, config, concVars>>

Init ==
    /\ stdoutSyncWriter = NoWriter
    /\ stderrSyncWriter = NoWriter
    /\ onceDone = FALSE
    /\ onceM = NoProc
    /\ newSyncWriterCalls = [out |-> 0, err |-> 0]
    /\ logger = NoLogger
    /\ config = <<>>
    /\ stdout = <<>>
    /\ stderr = <<>>
    /\ counts = [lb \in Labels |-> 0]
    /\ last = NoCall
    /\ calls = 0
    /\ used = 0
    /\ pc = [p \in 1..NumProcs |-> "start"]
    /\ cfg = [p \in 1..NumProcs |-> <<>>]
    /\ built = [p \in 1..NumProcs |-> NoLogger]

Next == CreateNone \/ CreateMulti \/ Log

Spec == Init /\ [][Next]_vars

(***************************************************************************)
(* The concurrent run: NumProcs callers of CreateStdSyncLogger, each step  *)
(* of createSyncStdLoggers' initializeWritersOnce.Do interleaved.          *)
(***************************************************************************)
Procs == 1..NumProcs

DoSlowCanLock_NoMutex(m) == TRUE

\* sync.Once: o.m.Lock() goes through when nobody holds the mutex
DoSlowCanLock(m) == m = NoProc

goto(p, label) == pc' = [pc EXCEPT ![p] = label]

\* CreateStdSyncLogger, level "none": return log.NewNopLogger()
BeginNone(p) ==
    /\ pc[p] = "start"
    /\ \E lv \in LevelInputs :
         /\ isLevelNone(lv)
         /\ cfg' = [cfg EXCEPT ![p] = lv]
    /\ built' = [built EXCEPT ![p] = NopLogger]
    /\ goto(p, "done")
    /\ UNCHANGED <<registryVars, seqVars>>

\* CreateStdSyncLogger, any other level: on to createSyncStdLoggers
BeginMulti(p) ==
    /\ pc[p] = "start"
    /\ \E lv \in LevelInputs :
         /\ ~isLevelNone(lv)
         /\ cfg' = [cfg EXCEPT ![p] = lv]
    /\ goto(p, "onceFast")
    /\ UNCHANGED <<registryVars, seqVars, built>>

\* Once.Do: the atomic load of done
OnceFast(p) ==
    /\ pc[p] = "onceFast"
    /\ goto(p, IF onceDone THEN "build" ELSE "onceLock")
    /\ UNCHANGED <<registryVars, seqVars, cfg, built>>

\* Once.doSlow: o.m.Lock(), then the second look at done
OnceLock(p) ==
    /\ pc[p] = "onceLock"
    /\ DoSlowCanLock(onceM)
    /\ onceM' = p
    /\ goto(p, IF onceDone THEN "onceUnlock" ELSE "chkOut")
    /\ UNCHANGED <<stdoutSyncWriter, stderrSyncWriter, onceDone, newSyncWriterCalls,
                   seqVars, cfg, built>>

\* if stdoutSyncWriter == nil
ChkOut(p) ==
    /\ pc[p] = "chkOut"
    /\ goto(p, IF stdoutSyncWriter = NoWriter THEN "newOut" ELSE "chkErr")
    /\ UNCHANGED <<registryVars, seqVars, cfg, built>>

\* stdoutSyncWriter = log.NewSyncWriter(os.Stdout)
NewOut(p) ==
    /\ pc[p] = "newOut"
    /\ stdoutSyncWriter' = newSyncWriterCalls.out + 1
    /\ newSyncWriterCalls' = [newSyncWriterCalls EXCEPT !.out = @ + 1]
    /\ goto(p, "chkErr")
    /\ UNCHANGED <<stderrSyncWriter, onceDone, onceM, seqVars, cfg, built>>

\* if stderrSyncWriter == nil
ChkErr(p) ==
    /\ pc[p] = "chkErr"
    /\ goto(p, IF stderrSyncWriter = NoWriter THEN "newErr" ELSE "onceStore")
    /\ UNCHANGED <<registryVars, seqVars, cfg, built>>

\* stderrSyncWriter = log.NewSyncWriter(os.Stderr)
NewErr(p) ==
    /\ pc[p] = "newErr"
    /\ stderrSyncWriter' = newSyncWriterCalls.err + 1
    /\ newSyncWriterCalls' = [newSyncWriterCalls EXCEPT !.err = @ + 1]
    /\ goto(p, "onceStore")
    /\ UNCHANGED <<stdoutSyncWriter, onceDone, onceM, seqVars, cfg, built>>

\* Once.doSlow: the deferred store of done, after f returned
OnceStore(p) ==
    /\ pc[p] = "onceStore"
    /\ onceDone' = TRUE
    /\ goto(p, "onceUnlock")
    /\ UNCHANGED <<stdoutSyncWriter, stderrSyncWriter, onceM, newSyncWriterCalls,
                   seqVars, cfg, built>>

\* Once.doSlow: the deferred o.m.Unlock()
OnceUnlock(p) ==
    /\ pc[p] = "onceUnlock"
    /\ onceM' = NoProc
    /\ goto(p, "build")
    /\ UNCHANGED <<stdoutSyncWriter, stderrSyncWriter, onceDone, newSyncWriterCalls,
                   seqVars, cfg, built>>

\* the loggers over the two writers, the filter, the map, the returned logger
Build(p) ==
    /\ pc[p] = "build"
    /\ \E name \in LoggerNames, counter \in BOOLEAN :
         built' = [built EXCEPT ![p] =
                      newMultiLogger(name, counter, getValidLevel(cfg[p]),
                                     stdoutSyncWriter, stderrSyncWriter)]
    /\ goto(p, "done")
    /\ UNCHANGED <<registryVars, seqVars, cfg>>

NextConc ==
    \E p \in Procs :
        \/ BeginNone(p) \/ BeginMulti(p) \/ OnceFast(p) \/ OnceLock(p)
        \/ ChkOut(p) \/ NewOut(p) \/ ChkErr(p) \/ NewErr(p)
        \/ OnceStore(p) \/ OnceUnlock(p) \/ Build(p)

SpecConc == Init /\ [][NextConc]_vars

(***************************************************************************)
(* What the claims speak of, stated apart from the code above.             *)
(***************************************************************************)
\* the Config.Level strings that read "none" once trimmed and lower-cased
InputsNone == { <<"n","o","n","e">>, <<" ","N","o","N","E","\t">> }

\* the minimum severity each Config.Level string stands for; "all" for the
\* strings that are no level name
MinLevelOf(lv) ==
    CASE lv \in InputsNone -> "none"
      [] lv = <<"e","r","r","o","r">> -> "error"
      [] lv \in { <<"w","a","r","n">>, <<"\n","W","a","r","n"," ">> } -> "warn"
      [] lv \in { <<"i","n","f","o">>, <<"I","N","F","O">> } -> "info"
      [] lv = <<"d","e","b","u","g">> -> "debug"
      [] OTHER -> "all"

\* debug < info < warn < error; "all" admits what "debug" admits
Rank(n) ==
    CASE n = "error" -> 4 [] n = "warn" -> 3 [] n = "info" -> 2 [] OTHER -> 1

\* the positions of an entry that hold the severity key as a key
LevelKeyPositions(kv) == {i \in 1..Len(kv) : i % 2 = 1 /\ kv[i] = LevelKey}

\* an entry's severity: the value paired with its (first) severity key.
\* "none": no severity key; "dangling": the key is the last element;
\* "invalid": the paired value is no Severity Level
EntrySeverity(kv) ==
    IF LevelKeyPositions(kv) = {} THEN "none"
    ELSE LET i == CHOOSE k \in LevelKeyPositions(kv) :
                      \A j \in LevelKeyPositions(kv) : k <= j
         IN  IF i = Len(kv) THEN "dangling"
             ELSE IF kv[i + 1] \in LevelValues THEN kv[i + 1].v
             ELSE "invalid"

\* a step that is a Log call
IsLogStep == calls' = calls + 1

Records == {stdout[i] : i \in 1..Len(stdout)} \cup {stderr[i] : i \in 1..Len(stderr)}

\* rec carries the entry kv, its elements adjacent and in order
CarriesEntry(rec, kv) ==
    \E k \in 0..(Len(rec) - Len(kv)) : SubSeq(rec, k + 1, k + Len(kv)) = kv

\* stream s gained exactly one record, which carries kv, and kept the rest
GainedOne(old, new, kv) ==
    /\ Len(new) = Len(old) + 1
    /\ SubSeq(new, 1, Len(old)) = old
    /\ CarriesEntry(new[Len(new)], kv)

(***************************************************************************)
(* The claims.                                                             *)
(***************************************************************************)

\* C1: a routing logger of minimum severity L writes an entry of severity S
\* to stdout, as one record appended in call order, iff S >= L and S is not
\* Error; to stderr iff S is Error; and writes nothing otherwise.
C1_RoutesBySeverity ==
    [][ (IsLogStep /\ logger.kind = "multi"
            /\ EntrySeverity(last'.keyvals) \in LevelNames)
        => LET kv == last'.keyvals
               S == EntrySeverity(kv)
               L == MinLevelOf(config)
           IN  /\ IF S # "error" /\ Rank(S) >= Rank(L)
                  THEN GainedOne(stdout, stdout', kv) ELSE stdout' = stdout
               /\ IF S = "error"
                  THEN GainedOne(stderr, stderr', kv) ELSE stderr' = stderr ]_vars

\* C2: a logger built with a level that reads "none" creates no writer, and
\* its Log calls return nil, write to neither stream and count nothing.
C2_NoneIsNoOp ==
    (config \in InputsNone /\ logger # NoLogger)
    => /\ stdout = <<>> /\ stderr = <<>>
       /\ \A lb \in Labels : counts[lb] = 0
       /\ stdoutSyncWriter = NoWriter /\ stderrSyncWriter = NoWriter
       /\ newSyncWriterCalls = [out |-> 0, err |-> 0] /\ ~onceDone
       /\ last.result \in {"none", NilError}

C2_Witness ==
    /\ config = <<" ","N","o","N","E","\t">>
    /\ calls >= 2
    /\ last.keyvals = <<LevelKey, ErrorValue>>
    /\ last.result = NilError

\* C3: on a routing logger, a Log call whose entry has no severity key, or
\* whose value paired with the severity key is no Severity Level, returns
\* nil, writes to neither stream and leaves the counter alone.
C3_NoSeverityIsDropped ==
    [][ (IsLogStep /\ logger.kind = "multi"
            /\ EntrySeverity(last'.keyvals) \in {"none", "invalid"})
        => /\ last'.result = NilError
           /\ UNCHANGED <<stdout, stderr, counts>> ]_vars

C3_Witness ==
    /\ logger.kind = "multi" /\ logger.counter
    /\ calls >= 2
    /\ stdout # <<>>
    /\ last.keyvals = <<LevelKey, Custom("invalid")>>
    /\ last.result = NilError

\* C4: on a routing logger built with a counter, every Log call whose entry
\* carries a recognized severity S adds exactly one to the counter's label S,
\* written or not, and no other call changes the counter; so each label's
\* value is the number of such calls.
C4_CounterCountsSeverities ==
    [][ (IsLogStep /\ logger.kind = "multi" /\ logger.counter)
        => LET S == EntrySeverity(last'.keyvals) IN
           counts' = IF S \in LevelNames
                     THEN [counts EXCEPT ![S] = @ + 1] ELSE counts ]_vars

C4_Witness ==
    /\ logger.kind = "multi" /\ logger.counter
    /\ MinLevelOf(config) = "warn"
    /\ calls = 2
    /\ last.keyvals = <<LevelKey, InfoValue>>
    /\ counts["info"] = 2
    /\ stdout = <<>> /\ stderr = <<>>

\* C5: under any interleaving of CreateStdSyncLogger calls, at most one sink
\* per stream is ever created, a caller builds its loggers only once both
\* writers are initialized, and all routing loggers hold the same two sinks.
C5_OneSinkPerStream ==
    /\ newSyncWriterCalls.out <= 1 /\ newSyncWriterCalls.err <= 1
    /\ \A p \in Procs :
         pc[p] = "build" => /\ onceDone
                            /\ stdoutSyncWriter # NoWriter
                            /\ stderrSyncWriter # NoWriter
    /\ \A p \in Procs :
         built[p].kind = "multi" => /\ built[p].outW # NoWriter
                                    /\ built[p].errW # NoWriter
    /\ \A p, q \in Procs :
         (built[p].kind = "multi" /\ built[q].kind = "multi")
         => (built[p].outW = built[q].outW /\ built[p].errW = built[q].errW)

\* two first callers inside Do at once: one creating a sink, one at the lock
C5_Witness ==
    \E p, q \in Procs : pc[p] = "newErr" /\ pc[q] = "onceLock"

\* C6: Log on a routing logger never panics, whatever the keyvals.
C6_LogNeverPanics == last.result # Panic

\* C7: every record written carries a field "logger" equal to the name given
\* to CreateStdSyncLogger.
C7_RecordNamesLogger ==
    \A rec \in Records :
        JSONHasField(rec, "logger") /\ JSONField(rec, "logger") = Str(logger.name)

\* the logger a level of "debug" builds, in place of l
DebugTwin(l) ==
    newMultiLogger(l.name, l.counter, getValidLevel(<<"d","e","b","u","g">>),
                   l.outW, l.errW)

\* C8: a logger built with a level string that is no level name does, at each
\* Log call, what a logger built with "debug" does: the same record on the
\* same stream, the same count, the same outcome.
C8_UnknownLevelIsDebug ==
    [][ (IsLogStep /\ MinLevelOf(config) = "all")
        => LET e == loggerLog(DebugTwin(logger), last'.keyvals) IN
           /\ stdout' = IF e.stream = "stdout" THEN Append(stdout, e.record) ELSE stdout
           /\ stderr' = IF e.stream = "stderr" THEN Append(stderr, e.record) ELSE stderr
           /\ counts' = IF e.label # NoLabel
                        THEN [counts EXCEPT ![e.label] = @ + 1] ELSE counts
           /\ last'.result = IF e.panic THEN Panic
                             ELSE IF e.stream # "none" THEN last'.werr ELSE NilError ]_vars

C8_Witness ==
    /\ config = <<"a","l","l">>
    /\ calls >= 1
    /\ last.keyvals = <<LevelKey, DebugValue>>
    /\ Len(stdout) = 1

\* C9: a Log call hands at most one record to a sink; it returns the sink's
\* error when that write fails, and nil when the write succeeds or the entry
\* is not forwarded.
C9_ReturnsSinkError ==
    [][ (IsLogStep /\ logger.kind = "multi")
        => LET wrote == (Len(stdout') - Len(stdout)) + (Len(stderr') - Len(stderr)) IN
           /\ wrote \in {0, 1}
           /\ last'.result = IF wrote = 1 THEN last'.werr ELSE NilError ]_vars

\* the record of an entry as the claim orders it: the entry's pairs, then the
\* appender's timestamp (and caller), then the logger name
OriginalOrder(prefix, kv) == kv \o prefix \o <<Str("logger"), Str(logger.name)>>

\* C10 as stated: a record holds the caller's pairs, then the timestamp (and
\* caller) pairs, then the ("logger", name) pair.
C10_OriginalFirst ==
    [][ IsLogStep
        => /\ stdout' # stdout
              => stdout'[Len(stdout')] = OriginalOrder(OutPrefix, last'.keyvals)
           /\ stderr' # stderr
              => stderr'[Len(stderr')] = OriginalOrder(ErrPrefix, last'.keyvals) ]_vars

\* rec starts with the appender's pairs, then the entry, then "logger", name
StartsInOrder(rec, prefix, kv) ==
    LET want == prefix \o kv \o <<Str("logger"), Str(logger.name)>> IN
    /\ Len(rec) >= Len(want)
    /\ SubSeq(rec, 1, Len(want)) = want

\* C10, amended: a record holds the timestamp (and, on stderr, caller) pair
\* first, then the caller's elements in their order, then "logger", name.
C10_TimestampFirst ==
    [][ IsLogStep
        => /\ stdout' # stdout
              => StartsInOrder(stdout'[Len(stdout')], OutPrefix, last'.keyvals)
           /\ stderr' # stderr
              => StartsInOrder(stderr'[Len(stderr')], ErrPrefix, last'.keyvals) ]_vars

C10_Witness ==
    /\ Len(stderr) = 1 /\ Len(stdout) = 1
    /\ last.keyvals = <<LevelKey, ErrorValue>>

=============================================================================
